---- MODULE Spec2Model ----
(***************************************************************************)
(* A model of peeweeplus: the JSON deserializer of json/deserialization.py,*)
(* the serializer / deserializer / patcher of json.py, the foreign key     *)
(* de-duplication, the enumeration field of peeweeplus.py and the Argon2   *)
(* password accessor of passwd.py.                                         *)
(***************************************************************************)
EXTENDS Integers, Sequences, FiniteSets, TLC

\* Payloads of the modelled Python values range over 0..MaxN.
MaxN == 1

(***************************************************************************)
(* Python values.  ty is the Python type, k the textual form of a str      *)
(* ("text", "num", "isodt", "isod", "isot", "b64"), n the payload and e    *)
(* the number of base64 layers around a bytes / str payload.               *)
(***************************************************************************)
Val(ty, k, n, e) == [ty |-> ty, k |-> k, n |-> n, e |-> e]

None == Val("NoneType", "-", 0, 0)

PyBool(b) == Val("bool", "-", IF b THEN 1 ELSE 0, 0)

PyInt(n) == Val("int", "-", n, 0)

PyFloat(n) == Val("float", "-", n, 0)

PyDecimal(n) == Val("Decimal", "-", n, 0)

PyStr(k, n) == Val("str", k, n, 0)

\* The three temporal types; ty is "datetime", "date" or "time".
PyTemporal(ty, n) == Val(ty, "-", n, 0)

\* bytes: e = 0 is raw data, e > 0 is the ASCII base64 text of the bytes with e - 1.
PyBytes(n, e) == Val("bytes", "-", n, e)

\* enum.Enum member number n; its underlying value is the str PyStr("text", n).
PyEnum(n) == Val("enum", "-", n, 0)

\* Results of a conversion: a value, or a raised exception.
Ok(v) == [exc |-> "none", val |-> v]

Raise(e) == [exc |-> e, val |-> None]

Numeric == {"bool", "int", "float", "Decimal"}

\* Python's ==: numbers compare by value across bool, int, float and Decimal
\* (the payloads are whole numbers), everything else by type and content.
PyEq(a, b) ==
    IF a.ty \in Numeric /\ b.ty \in Numeric THEN a.n = b.n ELSE a = b

\* The builtin int(value).
int(value) ==
    CASE value.ty \in Numeric -> Ok(PyInt(value.n))
      [] value.ty = "str" /\ value.k = "num" -> Ok(PyInt(value.n))
      [] value.ty \in {"str", "bytes"} -> Raise("ValueError")
      [] OTHER -> Raise("TypeError")

\* The builtin float(value).
float(value) ==
    CASE value.ty \in Numeric -> Ok(PyFloat(value.n))
      [] value.ty = "str" /\ value.k = "num" -> Ok(PyFloat(value.n))
      [] value.ty \in {"str", "bytes"} -> Raise("ValueError")
      [] OTHER -> Raise("TypeError")

\* The builtin bool(value) on a bool or an int.
bool(value) == PyBool(value.n # 0)

\* The ISO-8601 form of each temporal type.
IsoForm(ty) ==
    CASE ty = "datetime" -> "isodt"
      [] ty = "date" -> "isod"
      [] ty = "time" -> "isot"

\* value.isoformat()
isoformat(value) == PyStr(IsoForm(value.ty), value.n)

\* timelib's strpdatetime / strpdate / strptime: parse the ISO string of type ty.
strp(ty, value) ==
    CASE value.ty = "str" /\ value.k = IsoForm(ty) -> Ok(PyTemporal(ty, value.n))
      [] value.ty = "str" -> Raise("ValueError")
      [] OTHER -> Raise("TypeError")

\* base64.b64encode: bytes in, bytes out.
b64encode(value) ==
    IF value.ty = "bytes"
    THEN Ok(PyBytes(value.n, value.e + 1))
    ELSE Raise("TypeError")

\* base64.b64decode: accepts base64 text as str or bytes, returns bytes;
\* binascii.Error is a ValueError.
b64decode(value) ==
    CASE value.ty = "bytes" /\ value.e > 0 -> Ok(PyBytes(value.n, value.e - 1))
      [] value.ty = "str" /\ value.k = "b64" -> Ok(PyBytes(value.n, value.e))
      [] value.ty \in {"str", "bytes"} -> Raise("ValueError")
      [] OTHER -> Raise("TypeError")

\* The str holding the base64 text of raw bytes n.
PyB64Str(n) == Val("str", "b64", n, 0)

(***************************************************************************)
(* Field descriptors.  attr is the attribute name, key the db_column, kind *)
(* the peewee field class, null the nullability and default whether the    *)
(* field's default is something other than None.                           *)
(***************************************************************************)
Field(attr, key, kind, null, default) ==
    [attr |-> attr, key |-> key, kind |-> kind, null |-> null, default |-> default]

\* peewee: PrimaryKeyField and ForeignKeyField derive from IntegerField.
IntegerKinds == {"IntegerField", "PrimaryKeyField", "ForeignKeyField"}

TemporalKinds == {"DateTimeField", "DateField", "TimeField"}

\* The value a field's default puts into a new record.
DefaultValue(field) ==
    CASE field.kind = "BooleanField" -> PyBool(FALSE)
      [] field.kind \in IntegerKinds -> PyInt(0)
      [] field.kind = "FloatField" -> PyFloat(0)
      [] field.kind = "DecimalField" -> PyDecimal(0)
      [] field.kind = "DateTimeField" -> PyTemporal("datetime", 0)
      [] field.kind = "DateField" -> PyTemporal("date", 0)
      [] field.kind = "TimeField" -> PyTemporal("time", 0)
      [] field.kind = "BlobField" -> PyBytes(0, 0)
      [] OTHER -> PyStr("text", 0)

\* model(): a new record holds each field's default, or None.
NewRecord(fields) ==
    [a \in {fields[i].attr : i \in DOMAIN fields} |->
        LET f == CHOOSE g \in {fields[i] : i \in DOMAIN fields} : g.attr = a
        IN  IF f.default THEN DefaultValue(f) ELSE None]

\* setattr(record, attribute, value)
setattr(record, attribute, value) == [record EXCEPT ![attribute] = value]

\* pop that reads the key and leaves it in the dictionary.
DictPop_Keep(dictionary, key) == dictionary

\* dictionary.pop(key): the dictionary without the key.
DictPop(dictionary, key) ==
    [k \in (DOMAIN dictionary) \ {key} |-> dictionary[k]]

\* dictionary[key] = value
DictSet(dictionary, key, value) ==
    [k \in (DOMAIN dictionary) \cup {key} |->
        IF k = key THEN value ELSE dictionary[k]]

EmptyDict == [k \in {} |-> None]

(***************************************************************************)
(* json.py: the conversions.                                               *)
(***************************************************************************)

\* Attribute names starting with the protection marker "_".
startswith_underscore(attribute) == attribute \in {"_secret"}

\* iterfields: the fields of the model in dir() order, filtered by the flags.
iterfields(model, protected, primary_key, foreign_keys) ==
    SelectSeq(model, LAMBDA f :
        /\ (protected \/ ~startswith_underscore(f.attr))
        /\ (primary_key \/ f.kind # "PrimaryKeyField")
        /\ (foreign_keys \/ f.kind # "ForeignKeyField"))

field_to_json(field, value) ==
    CASE value = None -> Ok(value)
      [] field.kind = "ForeignKeyField" -> Ok(value)
      [] field.kind = "DecimalField" -> float(value)
      [] field.kind \in TemporalKinds ->
            IF value.ty \in {"datetime", "date", "time"}
            THEN Ok(isoformat(value))
            ELSE Raise("AttributeError")
      [] field.kind = "BlobField" -> b64encode(value)
      [] field.kind = "EnumField" ->
            IF value.ty = "enum"
            THEN Ok(PyStr("text", value.n))
            ELSE Raise("AttributeError")
      [] OTHER -> Ok(value)

\* value_to_field without the null check: None passes for every field.
value_to_field_NoNullCheck(value, field) ==
    IF value = None THEN Ok(value) ELSE Ok(PyStr("text", 0))

value_to_field(value, field) ==
    CASE value = None ->
            IF ~field.null THEN Raise("NullError") ELSE Ok(value)
      [] field.kind = "BooleanField" ->
            IF value.ty \in {"bool", "int"}
            THEN Ok(bool(value))
            ELSE Raise("ValueError")
      [] field.kind \in IntegerKinds -> int(value)
      [] field.kind = "FloatField" -> float(value)
      [] field.kind = "DecimalField" -> float(value)
      [] field.kind = "DateTimeField" ->
            IF value.ty = "datetime" THEN Ok(value) ELSE strp("datetime", value)
      [] field.kind = "DateField" ->
            IF value.ty \in {"date", "datetime"} THEN Ok(value) ELSE strp("date", value)
      [] field.kind = "TimeField" ->
            IF value.ty = "time" THEN Ok(value) ELSE strp("time", value)
      [] field.kind = "BlobField" ->
            IF value.ty = "bytes" THEN Ok(value) ELSE b64decode(value)
      [] OTHER -> Ok(value)

(***************************************************************************)
(* json.py: the field catalog.                                             *)
(***************************************************************************)

\* attribute.endswith('_id'), over the attribute names of the modelled schemas.
endswith_id(attribute) == attribute \in {"owner_id", "owner_id_id", "pet_id"}

\* attribute[:-3] of an attribute ending in '_id'.
strip_id(attribute) ==
    CASE attribute = "owner_id" -> "owner"
      [] attribute = "owner_id_id" -> "owner_id"
      [] attribute = "pet_id" -> "pet"

\* IsFkDupe without the comparison of the db_columns.
IsFkDupe_AnyColumn(field, fk_fields) ==
    /\ endswith_id(field.attr)
    /\ \E j \in DOMAIN fk_fields : fk_fields[j].attr = strip_id(field.attr)

\* The foreign key entry of fk_fields is dropped: it ends in '_id' and the
\* entry named without the suffix has the same db_column.
IsFkDupe(field, fk_fields) ==
    /\ endswith_id(field.attr)
    /\ \E j \in DOMAIN fk_fields :
          /\ fk_fields[j].attr = strip_id(field.attr)
          /\ field.key = fk_fields[j].key

\* The attribute names of a class are distinct, so the dict fk_fields, keyed
\* by attribute, holds the foreign key entries in their order.
filter_fk_dupes(fields) ==
    LET fk_fields == SelectSeq(fields, LAMBDA f : f.kind = "ForeignKeyField")
    IN  SelectSeq(fields, LAMBDA f : f.kind # "ForeignKeyField")
        \o SelectSeq(fk_fields, LAMBDA f : ~IsFkDupe(f, fk_fields))

\* {field.db_column: (attribute, field) for ...}: a later entry with the same
\* db_column replaces the earlier one in its place.
RECURSIVE ColumnDict(_, _)
ColumnDict(fields, acc) ==
    IF fields = <<>> THEN acc
    ELSE LET f == Head(fields)
             at == {j \in DOMAIN acc : acc[j].key = f.key}
         IN  ColumnDict(Tail(fields),
                IF at = {} THEN Append(acc, f)
                ELSE [acc EXCEPT ![CHOOSE j \in at : TRUE] = f])

map_fields(model, protected, primary_key, foreign_keys) ==
    IF foreign_keys
    THEN ColumnDict(filter_fk_dupes(
            iterfields(model, protected, primary_key, TRUE)), <<>>)
    ELSE ColumnDict(iterfields(model, protected, primary_key, FALSE), <<>>)

(***************************************************************************)
(* json.py: deserialize, patch, serialize.  An outcome is the exception    *)
(* raised ("none": the call returned), the attribute and value the         *)
(* exception carries, the keys of an InvalidKeys, the record as the call   *)
(* left it and the dictionary as the call left it.                         *)
(***************************************************************************)
Outcome(exc, attr, value, keys, rec, dict) ==
    [exc |-> exc, attr |-> attr, value |-> value, keys |-> keys,
     rec |-> rec, dict |-> dict]

RECURSIVE DeserializeLoop(_, _, _, _)
DeserializeLoop(field_map, i, record, dictionary) ==
    IF i > Len(field_map)
    THEN Outcome("none", "-", None, {}, record, dictionary)
    ELSE LET field == field_map[i] IN
         IF field.key \notin DOMAIN dictionary
         THEN IF ~field.null /\ ~field.default
              THEN Outcome("FieldNotNullable", field.attr, None, {}, record, dictionary)
              ELSE DeserializeLoop(field_map, i + 1, record, dictionary)
         ELSE LET value == dictionary[field.key]
                  popped == DictPop(dictionary, field.key)
                  conv == value_to_field(value, field)
              IN  CASE conv.exc = "NullError" ->
                        Outcome("FieldNotNullable", field.attr, None, {}, record, popped)
                    [] conv.exc \in {"TypeError", "ValueError"} ->
                        Outcome("FieldValueError", field.attr, value, {}, record, popped)
                    [] OTHER ->
                        DeserializeLoop(field_map, i + 1,
                            setattr(record, field.attr, conv.val), popped)

\* json.py deserialize(model, dictionary, protected, foreign_keys)
JsonDeserialize(model, dictionary, protected, foreign_keys) ==
    DeserializeLoop(map_fields(model, protected, TRUE, foreign_keys), 1,
                    NewRecord(model), dictionary)

RECURSIVE PatchLoop(_, _, _, _)
PatchLoop(field_map, i, record, dictionary) ==
    IF i > Len(field_map)
    THEN Outcome("none", "-", None, {}, record, dictionary)
    ELSE LET field == field_map[i] IN
         IF field.key \notin DOMAIN dictionary
         THEN PatchLoop(field_map, i + 1, record, dictionary)
         ELSE LET value == dictionary[field.key]
                  popped == DictPop(dictionary, field.key)
                  conv == value_to_field(value, field)
              IN  CASE conv.exc = "NullError" ->
                        Outcome("FieldNotNullable", field.attr, None, {}, record, popped)
                    [] conv.exc \in {"TypeError", "ValueError"} ->
                        Outcome("FieldValueError", field.attr, value, {}, record, popped)
                    [] OTHER ->
                        PatchLoop(field_map, i + 1,
                            setattr(record, field.attr, conv.val), popped)

\* json.py patch(record, dictionary, protected, foreign_keys); model is record.__class__
JsonPatch(model, record, dictionary, protected, foreign_keys) ==
    PatchLoop(map_fields(model, protected, TRUE, foreign_keys), 1, record, dictionary)

\* The classes a field of the given kind is an instance of.
ClassesOf(kind) ==
    CASE kind \in {"PrimaryKeyField", "ForeignKeyField"} -> {kind, "IntegerField", "Field"}
      [] kind = "EnumField" -> {kind, "CharField", "Field"}
      [] OTHER -> {kind, "Field"}

FieldClasses ==
    {"Field", "BooleanField", "IntegerField", "PrimaryKeyField", "ForeignKeyField",
     "FloatField", "DecimalField", "DateTimeField", "DateField", "TimeField",
     "BlobField", "CharField", "EnumField"}

\* filter_fields(iterable): the items that are subclasses of peewee.Field.
filter_fields(iterable) == iterable \cap FieldClasses

RECURSIVE SerializeLoop(_, _, _, _, _, _)
SerializeLoop(field_map, i, record, ignore, null, dictionary) ==
    IF i > Len(field_map)
    THEN Outcome("none", "-", None, {}, record, dictionary)
    ELSE LET field == field_map[i] IN
         IF \/ field.key \in ignore
            \/ field.attr \in ignore
            \/ ClassesOf(field.kind) \cap filter_fields(ignore) # {}
         THEN SerializeLoop(field_map, i + 1, record, ignore, null, dictionary)
         ELSE LET value == record[field.attr] IN
              IF value # None \/ null
              THEN LET conv == field_to_json(field, value) IN
                   IF conv.exc # "none"
                   THEN Outcome(conv.exc, field.attr, value, {}, record, dictionary)
                   ELSE SerializeLoop(field_map, i + 1, record, ignore, null,
                            DictSet(dictionary, field.key, conv.val))
              ELSE SerializeLoop(field_map, i + 1, record, ignore, null, dictionary)

\* serialize that emits null attributes whatever the null flag says.
JsonSerialize_NullsAlways(model, record, ignore, null, protected, primary_key, foreign_keys) ==
    SerializeLoop(map_fields(model, protected, primary_key, foreign_keys), 1,
                  record, ignore, TRUE, EmptyDict)

\* json.py serialize(record, ignore, null, protected, primary_key, foreign_keys)
JsonSerialize(model, record, ignore, null, protected, primary_key, foreign_keys) ==
    SerializeLoop(map_fields(model, protected, primary_key, foreign_keys), 1,
                  record, ignore, null, EmptyDict)

(***************************************************************************)
(* json/deserialization.py: deserialize and its generator _filter.         *)
(***************************************************************************)

\* json_fields(model, fk_fields, autofields): the catalog of the model, without
\* protected attributes and shadowing foreign key identifiers.
json_fields(model, fk_fields, autofields) ==
    filter_fk_dupes(iterfields(model, FALSE, autofields, fk_fields))

\* json_key(field): the key of the field in the dictionary.
json_key(field) == field.key

\* parse_bool: a bool, or the integers 0 and 1.
parse_bool(value) ==
    CASE value.ty = "bool" -> Ok(value)
      [] value.ty = "int" /\ value.n \in {0, 1} -> Ok(bool(value))
      [] OTHER -> Raise("ValueError")

\* parse_datetime, parse_date, parse_time: a typed value as it is, else parsed.
parse_temporal(ty, value) ==
    IF value.ty = ty THEN Ok(value) ELSE strp(ty, value)

\* parse_blob: bytes as they are, else base64-decoded.
parse_blob(value) ==
    IF value.ty = "bytes" THEN Ok(value) ELSE b64decode(value)

\* _CONVERTER(field, value, check_null=...): the converter of the field's class.
FieldConverter(field, value, check_null) ==
    CASE value = None ->
            IF check_null /\ ~field.null THEN Raise("NullError") ELSE Ok(value)
      [] field.kind = "ForeignKeyField" -> int(value)
      [] field.kind = "BooleanField" -> parse_bool(value)
      [] field.kind \in IntegerKinds -> int(value)
      [] field.kind = "FloatField" -> float(value)
      [] field.kind = "DecimalField" -> float(value)
      [] field.kind = "DateTimeField" -> parse_temporal("datetime", value)
      [] field.kind = "DateField" -> parse_temporal("date", value)
      [] field.kind = "TimeField" -> parse_temporal("time", value)
      [] field.kind = "BlobField" -> parse_blob(value)
      [] OTHER -> Ok(value)

\* The keys of the dictionary excluded by allow / deny (the first statement
\* of _filter).
ExcludedKeys(dictionary, allow, deny) ==
    {key \in DOMAIN dictionary :
        (allow # {} /\ key \notin allow) \/ (deny # {} /\ key \in deny)}

\* FilterEnd without the unprocessed keys: only the keys excluded by allow /
\* deny are reported.
FilterEnd_OnlyExcluded(record, c, processed_keys) ==
    LET invalid_keys == ExcludedKeys(c.dictionary, c.allow, c.deny)
    IN  IF c.strict /\ invalid_keys # {}
        THEN Outcome("InvalidKeys", "-", None, invalid_keys, record, c.dictionary)
        ELSE Outcome("none", "-", None, {}, record, c.dictionary)

\* The end of _filter: the strict check, after the last field was yielded.
FilterEnd(record, c, processed_keys) ==
    LET unprocessed_keys == {key \in DOMAIN c.dictionary : key \notin processed_keys}
        invalid_keys == ExcludedKeys(c.dictionary, c.allow, c.deny) \cup unprocessed_keys
    IN  IF c.strict /\ invalid_keys # {}
        THEN Outcome("InvalidKeys", "-", None, invalid_keys, record, c.dictionary)
        ELSE Outcome("none", "-", None, {}, record, c.dictionary)

\* IsMissingKey without the test for patching.
IsMissingKey_AlsoPatch(field, patch) == ~field.default /\ ~field.null

\* _filter, on a KeyError: the absent key is an error.
IsMissingKey(field, patch) == ~patch /\ ~field.default /\ ~field.null

\* A loop that takes the value as it is when its conversion fails.
Convert_Unchecked(field, value) ==
    LET conv == FieldConverter(field, value, TRUE) IN
    IF conv.exc \in {"TypeError", "ValueError"} THEN Ok(value) ELSE conv

\* What the loop of deserialize does with a tuple _filter yields.
Convert(field, value) == FieldConverter(field, value, TRUE)

\* The loop of deserialize over the generator _filter: the fields from the
\* i-th on, with the record and the processed keys so far.
RECURSIVE FilterLoop(_, _, _, _, _)
FilterLoop(fields, i, record, processed_keys, c) ==
    IF i > Len(fields)
    THEN FilterEnd(record, c, processed_keys)
    ELSE LET field == fields[i]
             key == json_key(field)
         IN  IF c.allow # {} /\ key \notin c.allow
             THEN FilterLoop(fields, i + 1, record, processed_keys, c)
             ELSE IF c.deny # {} /\ key \in c.deny
             THEN FilterLoop(fields, i + 1, record, processed_keys, c)
             ELSE IF key \notin DOMAIN c.dictionary
             THEN IF IsMissingKey(field, c.patch)
                  THEN Outcome("MissingKeyError", field.attr, None, {}, record,
                               c.dictionary)
                  ELSE FilterLoop(fields, i + 1, record,
                                  processed_keys \cup {key}, c)
             ELSE LET value == c.dictionary[key]
                      conv == Convert(field, value)
                  IN  CASE conv.exc = "NullError" ->
                            Outcome("FieldNotNullable", field.attr, None, {}, record,
                                    c.dictionary)
                        [] conv.exc \in {"TypeError", "ValueError"} ->
                            Outcome("FieldValueError", field.attr, value, {}, record,
                                    c.dictionary)
                        [] OTHER ->
                            FilterLoop(fields, i + 1,
                                setattr(record, field.attr, conv.val),
                                processed_keys \cup {key}, c)

\* deserialize with the strict check of the keys ahead of the catalog pass.
deserialize_StrictFirst(model, c, fk_fields) ==
    LET target == IF c.patch THEN c.before ELSE NewRecord(model)
        catalog_fields == json_fields(model, fk_fields, FALSE)
        processed_keys ==
            {json_key(catalog_fields[i]) : i \in {j \in DOMAIN catalog_fields :
                /\ (c.allow = {} \/ json_key(catalog_fields[j]) \in c.allow)
                /\ (c.deny = {} \/ json_key(catalog_fields[j]) \notin c.deny)}}
        early == FilterEnd(target, c, processed_keys)
    IN  IF early.exc = "InvalidKeys"
        THEN early
        ELSE FilterLoop(catalog_fields, 1, target, {}, c)

\* deserialize that passes neither allow nor deny on to _filter.
deserialize_NoAllowDeny(model, c, fk_fields) ==
    FilterLoop(json_fields(model, fk_fields, FALSE), 1,
               IF c.patch THEN c.before ELSE NewRecord(model), {},
               [c EXCEPT !.allow = {}, !.deny = {}])

\* deserialize(target, dictionary, allow, deny, fk_fields, strict); c.patch says
\* that the target is a record (c.before) and not the model class.
deserialize(model, c, fk_fields) ==
    FilterLoop(json_fields(model, fk_fields, FALSE), 1,
               IF c.patch THEN c.before ELSE NewRecord(model), {}, c)

(***************************************************************************)
(* peeweeplus.py: EnumField.  self.values is a set of the given values, or, *)
(* when every value has a .value, a dict from each member's value to the   *)
(* member: keys are the elements of the set or the keys of the dict, items *)
(* the (key, member) entries of the dict.                                  *)
(***************************************************************************)

\* The enum member whose value is None.
PyEnumNone == Val("enum", "none", 0, 0)

\* item.value of an enum member.
EnumValue(item) == IF item.k = "none" THEN None ELSE PyStr("text", item.n)

\* len(value) of a str: the text number n has n + 1 characters.
len(value) == value.n + 1

\* EnumField.__init__ (the value set): the dict comprehension raises
\* AttributeError, which is suppressed, unless every value has a .value.
EnumValues(values) ==
    IF \A item \in values : item.ty = "enum"
    THEN [dict |-> TRUE,
          keys |-> {EnumValue(item) : item \in values},
          items |-> {<<EnumValue(item), item>> : item \in values}]
    ELSE [dict |-> FALSE, keys |-> values, items |-> {}]

\* The getter of null that answers with the declared default instead.
EnumNull_Declared(self) == FALSE

\* EnumField.null (getter)
EnumNull(self) == \E value \in self.keys : value = None

\* EnumField.max_length (getter): max() of nothing is a ValueError, len() of an
\* enum member a TypeError.
EnumMaxLength(self) ==
    LET nonnull == {value \in self.keys : value # None} IN
    IF nonnull = {}
    THEN Raise("ValueError")
    ELSE IF \E value \in nonnull : value.ty # "str"
    THEN Raise("TypeError")
    ELSE Ok(PyInt(CHOOSE m \in {len(v) : v \in nonnull} :
                \A v \in nonnull : len(v) <= m))

\* The setters of max_length and null: anything but None is refused, None is
\* ignored.
EnumSetter(value) == IF value # None THEN Raise("TypeError") ELSE Ok(None)

\* db_value that returns what it was given when that is a value of the field.
db_value_Unchecked(self, value) ==
    LET v == IF value.ty = "enum" THEN EnumValue(value) ELSE value IN Ok(v)

\* EnumField.db_value
db_value(self, value) ==
    LET v == IF value.ty = "enum" THEN EnumValue(value) ELSE value IN
    IF v \in self.keys THEN Ok(v) ELSE [exc |-> "InvalidEnumerationValue", val |-> v]

\* EnumField.python_value: subscripting a set is a TypeError, a missing key of
\* the dict a KeyError.
python_value(self, value) ==
    IF self.dict
    THEN IF value \in self.keys
         THEN Ok((CHOOSE entry \in self.items : entry[1] = value)[2])
         ELSE [exc |-> "InvalidEnumerationValue", val |-> value]
    ELSE IF value \in self.keys
         THEN Ok(value)
         ELSE [exc |-> "InvalidEnumerationValue", val |-> value]

(***************************************************************************)
(* passwd.py: the Argon2 password accessor.  A hash is a str of the form   *)
(* "argon2" that carries the number of the plain text it was made from and *)
(* its salt; an Argon2Hash is such a str with a verify method.             *)
(***************************************************************************)

\* PASSWORD_HASHER = PasswordHasher()
PASSWORD_HASHER == Val("PasswordHasher", "-", 0, 0)

\* _MIN_PW_LEN
MIN_PW_LEN == 8

\* The plain text password of the given length.
Plaintext(length) == PyStr("text", length - 1)

\* hasher.hash(password), with the salt the hasher drew.
hasher_hash(password, salt) == Val("str", "argon2", password.n, salt)

\* hasher.verify(hash, password): True, VerifyMismatchError for a hash of
\* another password, VerificationError for what is no hash.
hasher_verify(hash, password) ==
    IF hash.ty \in {"str", "Argon2Hash"} /\ hash.k = "argon2"
    THEN IF password.ty = "str" /\ password.k = "text" /\ password.n = hash.n
         THEN Ok(PyBool(TRUE))
         ELSE Raise("VerifyMismatchError")
    ELSE Raise("VerificationError")

\* is_hash(value, hasher=PASSWORD_HASHER): hasher.verify is looked up on
\* whatever was passed as hasher; a str has no verify (AttributeError), the
\* verify of an Argon2Hash takes one argument (TypeError).
is_hash(value, hasher) ==
    IF hasher.ty = "PasswordHasher"
    THEN LET r == hasher_verify(value, Plaintext(0)) IN
         IF r.exc = "none" THEN r
         ELSE IF r.exc = "VerifyMismatchError" THEN Ok(PyBool(TRUE))
         ELSE Ok(PyBool(FALSE))
    ELSE IF hasher.ty = "Argon2Hash" THEN Raise("TypeError")
    ELSE Raise("AttributeError")

\* Argon2Hash(hasher, value)
Argon2Hash(hasher, value) == Val("Argon2Hash", value.k, value.n, value.e)

\* Argon2Hash.verify with its arguments in the wrong order.
Argon2HashVerify_Swapped(self, passwd) == hasher_verify(passwd, self)

\* Argon2Hash.verify(passwd): self._hasher.verify(self, passwd)
Argon2HashVerify(self, passwd) == hasher_verify(self, passwd)

\* Argon2FieldAccessor.__get__ on a record
Argon2Get(value) ==
    IF value = None THEN None ELSE Argon2Hash(PASSWORD_HASHER, value)

\* Argon2FieldAccessor.__set__: what is stored afterwards, and what was raised.
\* is_hash is called as is_hash(self.field.hasher, value).
Argon2Set(old, value, salt) ==
    IF value # None
    THEN LET h == is_hash(PASSWORD_HASHER, value) IN
         IF h.exc # "none"
         THEN [stored |-> old, res |-> h]
         ELSE IF h.val = PyBool(FALSE)
         THEN IF len(value) < MIN_PW_LEN
              THEN [stored |-> old,
                    res |-> [exc |-> "PasswordTooShortError", val |-> PyInt(len(value))]]
              ELSE [stored |-> hasher_hash(value, salt), res |-> Ok(None)]
         ELSE [stored |-> value, res |-> Ok(None)]
    ELSE [stored |-> value, res |-> Ok(None)]

(***************************************************************************)
(* database.py: MySQLDatabase.execute_sql.                                 *)
(***************************************************************************)

\* The handler of OperationalError re-raises whatever retried says.
ShouldRaise_IgnoreRetried(retry, retried) == ~retry

\* except OperationalError: if not self.retry or retried: raise
ShouldRaise(retry, retried) == ~retry \/ retried

(***************************************************************************)
(* The state: a model class (its fields in dir() order), a record of it    *)
(* held by the caller, and the last call with its outcome.                 *)
(***************************************************************************)
VARIABLES
    schema,     \* the fields of the model class
    record,     \* the caller's record instance
    call,       \* the arguments of the last call
    outcome,    \* what the last call raised or returned
    first,      \* what the call raised or returned the first time, once repeated
    phase,      \* "idle", "serialized" (serialize returned), "done" or "again"
    fields,     \* the (attribute, field) sequence given to filter_fk_dupes
    catalog,    \* what filter_fk_dupes and map_fields made of it
    enum,       \* an EnumField: the value set it was built from and self.values
    enumres,    \* the last operation on the EnumField and its result
    stored,     \* the password attribute of a record, as stored
    pwres,      \* the last access to the password attribute and its result
    db,         \* a MySQLDatabase: closing, retry, and whether its connection is open
    exec        \* the execute_sql call in progress, or the last one

vars == <<schema, record, call, outcome, first, phase, fields, catalog, enum,
          enumres, stored, pwres, db, exec>>

fkVars == <<fields, catalog>>

enumVars == <<enum, enumres>>

pwVars == <<stored, pwres>>

dbVars == <<db, exec>>

desVars == <<schema, record, call, outcome, first>>

\* The variables a specification does not use stay as they are here.
NoFk == fields = <<>> /\ catalog = <<>>

NoEnum == enum = <<>> /\ enumres = <<>>

NoPw == stored = <<>> /\ pwres = <<>>

NoDb == db = <<>> /\ exec = <<>>

\* The values the storage layer puts into an attribute of the given kind.
TypedValues(kind) ==
    CASE kind = "BooleanField" -> {PyBool(TRUE), PyBool(FALSE)}
      [] kind \in IntegerKinds -> {PyInt(n) : n \in 0..MaxN}
      [] kind = "FloatField" -> {PyFloat(n) : n \in 0..MaxN}
      [] kind = "DecimalField" -> {PyDecimal(n) : n \in 0..MaxN}
      [] kind = "DateTimeField" -> {PyTemporal("datetime", n) : n \in 0..MaxN}
      [] kind = "DateField" -> {PyTemporal("date", n) : n \in 0..MaxN}
      [] kind = "TimeField" -> {PyTemporal("time", n) : n \in 0..MaxN}
      [] kind = "BlobField" -> {PyBytes(n, 0) : n \in 0..MaxN}
      [] kind = "EnumField" ->
            {PyEnum(n) : n \in 0..MaxN} \cup {PyStr("text", n) : n \in 0..MaxN}
      [] OTHER -> {PyStr("text", n) : n \in 0..MaxN}

\* The values a caller's dictionary may hold.
JsonValues ==
    {None, PyBool(TRUE), PyBool(FALSE)}
    \cup {PyInt(n) : n \in 0..(MaxN + 1)}
    \cup {PyFloat(n) : n \in 0..MaxN}
    \cup {PyDecimal(n) : n \in 0..MaxN}
    \cup {PyStr(k, n) : k \in {"text", "num", "isodt", "isod", "isot", "b64"},
                        n \in 0..MaxN}
    \cup {PyTemporal(ty, n) : ty \in {"datetime", "date", "time"}, n \in 0..MaxN}
    \cup {PyBytes(n, e) : n \in 0..MaxN, e \in 0..1}
    \cup {PyEnum(n) : n \in 0..MaxN}

JsonKinds ==
    {"BooleanField", "IntegerField", "FloatField", "DecimalField", "DateTimeField",
     "DateField", "TimeField", "BlobField", "EnumField", "CharField"}

\* The second field of every modelled class: a required integer.
FieldB == Field("b", "col_b", "IntegerField", FALSE, FALSE)

Keys == {"col_a", "col_b", "bogus"}

\* Marks a key the dictionary does not hold.
Absent == Val("absent", "-", 0, 0)

\* The dictionary with the given value, or no entry, under each key.
DictOf(a, b, bogus) ==
    LET entries == [k \in Keys |->
            CASE k = "col_a" -> a [] k = "col_b" -> b [] k = "bogus" -> bogus]
    IN  [k \in {x \in Keys : entries[x] # Absent} |-> entries[k]]

\* The dictionaries a caller passes: any of valuesA under col_a, a few values
\* under col_b, and possibly a key no field has.
Dictionaries(valuesA) ==
    {DictOf(a, b, bogus) :
        a \in valuesA \cup {Absent},
        b \in {Absent, None, PyInt(1), PyStr("text", 0)},
        bogus \in {Absent, PyInt(1)}}

NoCall ==
    [fn |-> "none", dictionary |-> EmptyDict, before |-> EmptyDict, patch |-> FALSE,
     allow |-> {}, deny |-> {}, strict |-> FALSE, ignore |-> {}, null |-> TRUE,
     chained |-> FALSE]

NoOutcome == Outcome("none", "-", None, {}, EmptyDict, EmptyDict)

\* A class with the field a of any kind and the record the caller holds: new,
\* or loaded with a typed value (or NULL) in each attribute.
InitJson ==
    /\ \E kind \in JsonKinds, null \in BOOLEAN, default \in BOOLEAN :
          schema = <<Field("a", "col_a", kind, null, default), FieldB>>
    /\ record \in [{"a", "b"} -> JsonValues]
    /\ \/ record = NewRecord(schema)
       \/ /\ record["a"] \in TypedValues(schema[1].kind) \cup {None}
          /\ record["b"] \in TypedValues(schema[2].kind) \cup {None}
    /\ call = NoCall
    /\ outcome = NoOutcome
    /\ first = NoOutcome
    /\ phase = "idle"
    /\ NoFk /\ NoEnum /\ NoPw /\ NoDb

\* deserialize(type(record), dictionary) of json.py
DoJsonDeserialize ==
    /\ phase = "idle"
    /\ \E dictionary \in Dictionaries(JsonValues) :
          /\ call' = [NoCall EXCEPT !.fn = "json.deserialize",
                                   !.dictionary = dictionary, !.before = record]
          /\ outcome' = JsonDeserialize(schema, dictionary, FALSE, FALSE)
    /\ phase' = "done"
    /\ UNCHANGED <<schema, record, first, fkVars, enumVars, pwVars, dbVars>>

\* patch(record, dictionary) of json.py: the record is changed in place.
DoJsonPatch ==
    /\ phase = "idle"
    /\ \E dictionary \in Dictionaries(JsonValues) :
          /\ call' = [NoCall EXCEPT !.fn = "json.patch", !.patch = TRUE,
                                   !.dictionary = dictionary, !.before = record]
          /\ outcome' = JsonPatch(schema, record, dictionary, FALSE, FALSE)
    /\ record' = outcome'.rec
    /\ phase' = "done"
    /\ UNCHANGED <<schema, first, fkVars, enumVars, pwVars, dbVars>>

IgnoreSets == {{}, {"col_a"}, {"b"}, {"IntegerField"}, {"CharField", "bogus"}}

\* serialize(record, ignore, null) of json.py
DoJsonSerialize ==
    /\ phase = "idle"
    /\ \E ignore \in IgnoreSets, null \in BOOLEAN :
          /\ call' = [NoCall EXCEPT !.fn = "json.serialize", !.ignore = ignore,
                                   !.null = null, !.before = record]
          /\ outcome' = JsonSerialize(schema, record, ignore, null, FALSE, TRUE, FALSE)
    /\ phase' = IF outcome'.exc = "none" THEN "serialized" ELSE "done"
    /\ UNCHANGED <<schema, record, first, fkVars, enumVars, pwVars, dbVars>>

\* deserialize(type(record), serialize(record)): the dictionary serialize returned
\* is passed on.
DoJsonDeserializeSerialized ==
    /\ phase = "serialized"
    /\ call' = [call EXCEPT !.fn = "json.deserialize", !.dictionary = outcome.dict,
                           !.chained = TRUE]
    /\ outcome' = JsonDeserialize(schema, outcome.dict, FALSE, FALSE)
    /\ phase' = "done"
    /\ UNCHANGED <<schema, record, first, fkVars, enumVars, pwVars, dbVars>>

\* patch(record, serialize(record))
DoJsonPatchSerialized ==
    /\ phase = "serialized"
    /\ call' = [call EXCEPT !.fn = "json.patch", !.patch = TRUE,
                           !.dictionary = outcome.dict, !.chained = TRUE]
    /\ outcome' = JsonPatch(schema, record, outcome.dict, FALSE, FALSE)
    /\ record' = outcome'.rec
    /\ phase' = "done"
    /\ UNCHANGED <<schema, first, fkVars, enumVars, pwVars, dbVars>>

NextJson ==
    \/ DoJsonDeserialize
    \/ DoJsonPatch
    \/ DoJsonSerialize
    \/ DoJsonDeserializeSerialized
    \/ DoJsonPatchSerialized

SpecJson == InitJson /\ [][NextJson]_vars

(***************************************************************************)
(* The callers of json/deserialization.py.                                 *)
(***************************************************************************)

\* The kinds _CONVERTER knows, and the generic field.
DesKinds == JsonKinds \ {"EnumField"}

DesValues ==
    {None, PyInt(1), PyInt(MaxN + 1), PyStr("text", 0), PyStr("num", 1)}

FilterSets == {{}, {"col_a"}, {"col_b"}, {"col_a", "bogus"}}

InitDes ==
    /\ \E kind \in DesKinds, null \in BOOLEAN, default \in BOOLEAN :
          schema = <<Field("a", "col_a", kind, null, default), FieldB>>
    /\ record \in [{"a", "b"} -> JsonValues]
    /\ \/ record = NewRecord(schema)
       \/ /\ record["a"] = DefaultValue(schema[1])
          /\ record["b"] = PyInt(0)
    /\ call = NoCall
    /\ outcome = NoOutcome
    /\ first = NoOutcome
    /\ phase = "idle"
    /\ NoFk /\ NoEnum /\ NoPw /\ NoDb

\* deserialize(Model, dictionary, ...) or deserialize(record, dictionary, ...)
DoDeserialize ==
    /\ phase = "idle"
    /\ \E dictionary \in Dictionaries(DesValues), allow \in FilterSets,
          deny \in FilterSets, strict \in BOOLEAN, patch \in BOOLEAN :
          LET c == [NoCall EXCEPT !.fn = "deserialize", !.dictionary = dictionary,
                                  !.before = record, !.patch = patch,
                                  !.allow = allow, !.deny = deny, !.strict = strict]
          IN  /\ call' = c
              /\ outcome' = deserialize(schema, c, FALSE)
              /\ record' = IF patch THEN outcome'.rec ELSE record
    /\ phase' = "done"
    /\ UNCHANGED <<schema, first, fkVars, enumVars, pwVars, dbVars>>

\* The caller of deserialize goes on with the record it patched.
Continue ==
    /\ phase = "done"
    /\ call.fn = "deserialize" /\ call.patch
    /\ outcome.exc = "none"
    /\ phase' = "idle"
    /\ call' = NoCall
    /\ outcome' = NoOutcome
    /\ UNCHANGED <<schema, record, first, fkVars, enumVars, pwVars, dbVars>>

NextDes ==
    \/ DoDeserialize
    \/ Continue

SpecDes == InitDes /\ [][NextDes]_vars

(***************************************************************************)
(* The field catalog of a model class with foreign keys.                   *)
(***************************************************************************)

\* What a model class may declare under each attribute name; NoField marks an
\* attribute the class does not have.
NoField == Field("-", "-", "-", FALSE, FALSE)

Declarable(attr) ==
    CASE attr = "_secret" -> {Field(attr, "secret", "CharField", FALSE, FALSE)}
      [] attr = "id" -> {Field(attr, "id", "PrimaryKeyField", FALSE, FALSE)}
      [] attr = "name" -> {Field(attr, "name", "CharField", FALSE, FALSE)}
      [] attr = "owner" ->
            {Field(attr, "owner", "ForeignKeyField", FALSE, FALSE),
             Field(attr, "owner_ref", "ForeignKeyField", FALSE, FALSE),
             Field(attr, "owner", "IntegerField", FALSE, FALSE)}
      [] attr = "owner_id" ->
            {Field(attr, "owner", "ForeignKeyField", FALSE, FALSE),
             Field(attr, "owner_id", "ForeignKeyField", FALSE, FALSE),
             Field(attr, "owner", "IntegerField", FALSE, FALSE)}
      [] attr = "owner_id_id" -> {Field(attr, "owner", "ForeignKeyField", FALSE, FALSE)}
      [] attr = "pet" ->
            {Field(attr, "pet", "ForeignKeyField", FALSE, FALSE),
             Field(attr, "pet", "IntegerField", FALSE, FALSE)}
      [] attr = "pet_id" -> {Field(attr, "pet", "ForeignKeyField", FALSE, FALSE)}

\* A field under the attribute name, or nothing.
Optional(attr) == Declarable(attr) \cup {NoField}

NoCatalog ==
    [fn |-> "none", protected |-> FALSE, primary_key |-> FALSE,
     foreign_keys |-> FALSE, out |-> <<>>]

\* A model class: its fields in the order of dir(model).
InitFk ==
    /\ \E f1 \in Optional("_secret"), f2 \in Optional("id"), f3 \in Optional("name"),
          f4 \in Optional("owner"), f5 \in Optional("owner_id"),
          f6 \in Optional("owner_id_id"), f7 \in Optional("pet"),
          f8 \in Optional("pet_id") :
          fields = SelectSeq(<<f1, f2, f3, f4, f5, f6, f7, f8>>,
                             LAMBDA f : f # NoField)
    /\ catalog = NoCatalog
    /\ phase = "idle"
    /\ schema = <<>> /\ record = <<>> /\ call = <<>> /\ outcome = <<>>
    /\ first = <<>>
    /\ NoEnum /\ NoPw /\ NoDb

\* filter_fk_dupes(iterfields(model, foreign_keys=True))
DoFilterFkDupes ==
    /\ phase = "idle"
    /\ catalog' = [NoCatalog EXCEPT !.fn = "filter_fk_dupes", !.foreign_keys = TRUE,
                                   !.protected = TRUE, !.primary_key = TRUE,
                                   !.out = filter_fk_dupes(fields)]
    /\ phase' = "done"
    /\ UNCHANGED <<fields, desVars, enumVars, pwVars, dbVars>>

\* map_fields(model, protected, primary_key, foreign_keys)
DoMapFields ==
    /\ phase = "idle"
    /\ \E protected \in BOOLEAN, primary_key \in BOOLEAN, foreign_keys \in BOOLEAN :
          catalog' = [fn |-> "map_fields", protected |-> protected,
                      primary_key |-> primary_key, foreign_keys |-> foreign_keys,
                      out |-> map_fields(fields, protected, primary_key, foreign_keys)]
    /\ phase' = "done"
    /\ UNCHANGED <<fields, desVars, enumVars, pwVars, dbVars>>

NextFk ==
    \/ DoFilterFkDupes
    \/ DoMapFields

SpecFk == InitFk /\ [][NextFk]_vars

(***************************************************************************)
(* An EnumField and its callers.                                           *)
(***************************************************************************)

\* What a value set may hold: strings, None, enum members.
EnumItems ==
    {PyStr("text", n) : n \in 0..MaxN} \cup {None}
    \cup {PyEnum(n) : n \in 0..MaxN} \cup {PyEnumNone}

\* What is written to the field: the items, and a string and a member outside
\* every value set.
EnumInputs == EnumItems \cup {PyStr("text", MaxN + 1), PyEnum(MaxN + 1)}

\* What the storage holds: strings and NULL.
StoredInputs == {PyStr("text", n) : n \in 0..(MaxN + 1)} \cup {None}

NoEnumField == [built |-> FALSE, V |-> {}, values |-> EnumValues({})]

EnumResult(op, arg, res) == [op |-> op, arg |-> arg, res |-> res]

InitEnum ==
    /\ enum = NoEnumField
    /\ enumres = EnumResult("none", None, Ok(None))
    /\ phase = "idle"
    /\ schema = <<>> /\ record = <<>> /\ call = <<>> /\ outcome = <<>>
    /\ first = <<>>
    /\ NoFk /\ NoPw /\ NoDb

\* EnumField(values, max_length=..., null=...): the setters of the super class'
\* __init__ refuse anything but None.
DoEnumInit ==
    /\ ~enum.built
    /\ \E values \in SUBSET EnumItems, max_length \in {None, PyInt(1)},
          null \in {None, PyBool(TRUE)} :
          LET set1 == EnumSetter(max_length)
              set2 == EnumSetter(null)
          IN  IF set1.exc # "none" \/ set2.exc # "none"
              THEN /\ enumres' = EnumResult("__init__", None, Raise("TypeError"))
                   /\ enum' = enum
              ELSE /\ enumres' = EnumResult("__init__", None, Ok(None))
                   /\ enum' = [built |-> TRUE, V |-> values,
                               values |-> EnumValues(values)]
    /\ UNCHANGED <<phase, desVars, fkVars, pwVars, dbVars>>

\* field.db_value(value)
DoDbValue ==
    /\ enum.built
    /\ \E value \in EnumInputs :
          enumres' = EnumResult("db_value", value, db_value(enum.values, value))
    /\ UNCHANGED <<enum, phase, desVars, fkVars, pwVars, dbVars>>

\* field.python_value(value)
DoPythonValue ==
    /\ enum.built
    /\ \E value \in StoredInputs :
          enumres' = EnumResult("python_value", value, python_value(enum.values, value))
    /\ UNCHANGED <<enum, phase, desVars, fkVars, pwVars, dbVars>>

\* field.max_length
DoGetMaxLength ==
    /\ enum.built
    /\ enumres' = EnumResult("max_length", None, EnumMaxLength(enum.values))
    /\ UNCHANGED <<enum, phase, desVars, fkVars, pwVars, dbVars>>

\* field.null
DoGetNull ==
    /\ enum.built
    /\ enumres' = EnumResult("null", None, Ok(PyBool(EnumNull(enum.values))))
    /\ UNCHANGED <<enum, phase, desVars, fkVars, pwVars, dbVars>>

\* field.max_length = value, field.null = value
DoSet ==
    /\ enum.built
    /\ \E op \in {"max_length=", "null="},
          value \in {None, PyInt(1), PyBool(TRUE), PyBool(FALSE)} :
          enumres' = EnumResult(op, value, EnumSetter(value))
    /\ UNCHANGED <<enum, phase, desVars, fkVars, pwVars, dbVars>>

NextEnum ==
    \/ DoEnumInit
    \/ DoDbValue
    \/ DoPythonValue
    \/ DoGetMaxLength
    \/ DoGetNull
    \/ DoSet

SpecEnum == InitEnum /\ [][NextEnum]_vars

(***************************************************************************)
(* A record with a password attribute and its callers.                     *)
(***************************************************************************)

\* Plain text passwords: too short, just long enough, longer.
Passwords == {Plaintext(length) : length \in (MIN_PW_LEN - 3)..(MIN_PW_LEN + 2)}

\* The hashes of the passwords that are long enough.
Hashes ==
    {hasher_hash(p, salt) : p \in {q \in Passwords : len(q) >= MIN_PW_LEN},
                            salt \in 0..MaxN}

PwResult(op, arg, before, res) == [op |-> op, arg |-> arg, before |-> before, res |-> res]

\* The record was loaded with a hash, or with NULL, in the attribute.
InitPw ==
    /\ stored \in Hashes \cup {None}
    /\ pwres = PwResult("none", None, None, Ok(None))
    /\ phase = "idle"
    /\ schema = <<>> /\ record = <<>> /\ call = <<>> /\ outcome = <<>>
    /\ first = <<>>
    /\ NoFk /\ NoEnum /\ NoDb

\* record.passwd = value
DoPwSet ==
    /\ \E value \in Passwords \cup Hashes \cup {None}
                    \cup {Argon2Hash(PASSWORD_HASHER, h) : h \in Hashes},
          salt \in 0..MaxN :
          LET r == Argon2Set(stored, value, salt) IN
          /\ stored' = r.stored
          /\ pwres' = PwResult("set", value, stored, r.res)
    /\ UNCHANGED <<phase, desVars, fkVars, enumVars, dbVars>>

\* record.passwd
DoPwGet ==
    /\ pwres' = PwResult("get", None, stored, Ok(Argon2Get(stored)))
    /\ UNCHANGED <<stored, phase, desVars, fkVars, enumVars, dbVars>>

\* record.passwd.verify(passwd)
DoPwVerify ==
    /\ stored # None
    /\ \E passwd \in Passwords :
          pwres' = PwResult("verify", passwd, stored,
                            Argon2HashVerify(Argon2Get(stored), passwd))
    /\ UNCHANGED <<stored, phase, desVars, fkVars, enumVars, dbVars>>

NextPw ==
    \/ DoPwSet
    \/ DoPwGet
    \/ DoPwVerify

SpecPw == InitPw /\ [][NextPw]_vars

\* Both deserializers, for what the claims say of all of them.
InitDeser == InitJson \/ InitDes

NextDeser == NextJson \/ NextDes

SpecDeser == InitDeser /\ [][NextDeser]_vars

(***************************************************************************)
(* A MySQLDatabase and the callers of its execute_sql, one statement of    *)
(* the method at a time.                                                   *)
(***************************************************************************)

\* How many calls of execute_sql a caller makes.
MaxCalls == 2

\* How often the query is executed at all within one call.
MaxExecutions == 3

\* How super().execute_sql ends: it returns a cursor, or raises.
Results == {"ok", "OperationalError", "IntegrityError"}

NoExec ==
    [pc |-> "idle", given |-> FALSE, retried |-> FALSE, executions |-> 0,
     first |-> "none", last |-> "none", in_context |-> FALSE, closed |-> FALSE,
     open_before_second |-> FALSE, result |-> "none", calls |-> 0]

\* MySQLDatabase(..., closing=..., retry=...), connected or not
InitDb ==
    /\ db \in [closing : BOOLEAN, retry : BOOLEAN, open : BOOLEAN]
    /\ exec = NoExec
    /\ phase = "idle"
    /\ schema = <<>> /\ record = <<>> /\ call = <<>> /\ outcome = <<>>
    /\ first = <<>>
    /\ NoFk /\ NoEnum /\ NoPw

\* database.execute_sql(sql), or database.execute_sql(sql, retried=True)
DoExecuteSql ==
    /\ exec.pc \in {"idle", "returned", "raised"}
    /\ exec.calls < MaxCalls
    /\ \E retried \in BOOLEAN :
          exec' = [NoExec EXCEPT !.pc = IF db.closing THEN "context" ELSE "try",
                                 !.given = retried, !.retried = retried,
                                 !.calls = exec.calls + 1]
    /\ UNCHANGED <<db, phase, desVars, fkVars, enumVars, pwVars>>

\* with self.connection_context(): the connection is opened if it was closed
EnterContext ==
    /\ exec.pc = "context"
    /\ db' = [db EXCEPT !.open = TRUE]
    /\ exec' = [exec EXCEPT !.pc = "with"]
    /\ UNCHANGED <<phase, desVars, fkVars, enumVars, pwVars>>

\* return super().execute_sql(*args, **kwargs), inside the context
SuperExecuteInContext ==
    /\ exec.pc = "with"
    /\ exec.executions < MaxExecutions
    /\ \E res \in Results :
          exec' = [exec EXCEPT !.pc = "exit", !.in_context = TRUE,
                               !.executions = @ + 1,
                               !.first = IF exec.executions = 0 THEN res ELSE @,
                               !.last = res, !.result = res]
    /\ UNCHANGED <<db, phase, desVars, fkVars, enumVars, pwVars>>

\* Leaving the context closes the connection; the result or the exception of
\* the query goes to the caller.
ExitContext ==
    /\ exec.pc = "exit"
    /\ db' = [db EXCEPT !.open = FALSE]
    /\ exec' = [exec EXCEPT !.pc = IF exec.result = "ok" THEN "returned" ELSE "raised"]
    /\ UNCHANGED <<phase, desVars, fkVars, enumVars, pwVars>>

\* try: return super().execute_sql(*args, **kwargs): a query that returns has
\* an open connection; one that raises may have lost it.
SuperExecute ==
    /\ exec.pc = "try"
    /\ exec.executions < MaxExecutions
    /\ \E res \in Results, open \in BOOLEAN :
          /\ res = "ok" => open
          /\ db' = [db EXCEPT !.open = open]
          /\ exec' = [exec EXCEPT
                !.executions = @ + 1,
                !.first = IF exec.executions = 0 THEN res ELSE @,
                !.last = res,
                !.open_before_second = IF exec.executions = 1 THEN db.open ELSE @,
                !.result = IF res = "OperationalError" THEN @ ELSE res,
                !.pc = CASE res = "ok" -> "returned"
                         [] res = "OperationalError" -> "except"
                         [] OTHER -> "raised"]
    /\ UNCHANGED <<phase, desVars, fkVars, enumVars, pwVars>>

\* except OperationalError: if not self.retry or retried: raise
ExceptOperationalError ==
    /\ exec.pc = "except"
    /\ exec' = IF ShouldRaise(db.retry, exec.retried)
               THEN [exec EXCEPT !.pc = "raised", !.result = "OperationalError"]
               ELSE [exec EXCEPT !.pc = "is_closed"]
    /\ UNCHANGED <<db, phase, desVars, fkVars, enumVars, pwVars>>

\* if not self.is_closed(): self.close()
CloseConnection ==
    /\ exec.pc = "is_closed"
    /\ db' = [db EXCEPT !.open = FALSE]
    /\ exec' = [exec EXCEPT !.pc = "recurse", !.closed = db.open]
    /\ UNCHANGED <<phase, desVars, fkVars, enumVars, pwVars>>

\* return self.execute_sql(*args, retried=True, **kwargs)
Recurse ==
    /\ exec.pc = "recurse"
    /\ exec' = [exec EXCEPT !.retried = TRUE,
                            !.pc = IF db.closing THEN "context" ELSE "try"]
    /\ UNCHANGED <<db, phase, desVars, fkVars, enumVars, pwVars>>

\* The statements of execute_sql, which run once the method was called.
StepDb ==
    \/ EnterContext
    \/ SuperExecuteInContext
    \/ ExitContext
    \/ SuperExecute
    \/ ExceptOperationalError
    \/ CloseConnection
    \/ Recurse

NextDb ==
    \/ DoExecuteSql
    \/ StepDb

SpecDb == InitDb /\ [][NextDb]_vars /\ WF_vars(StepDb)

(***************************************************************************)
(* A caller that repeats its call with the same dictionary object, as the  *)
(* first call left it, and the same class or a record equal to the one it  *)
(* passed the first time.                                                  *)
(***************************************************************************)

\* deserialize(target, dictionary, ...) of json/deserialization.py, again
DoDeserializeAgain ==
    /\ phase = "done" /\ call.fn = "deserialize"
    /\ first' = outcome
    /\ outcome' = deserialize(schema, [call EXCEPT !.dictionary = outcome.dict], FALSE)
    /\ phase' = "again"
    /\ UNCHANGED <<schema, record, call, fkVars, enumVars, pwVars, dbVars>>

\* deserialize(type(record), dictionary) of json.py, again
DoJsonDeserializeAgain ==
    /\ phase = "done" /\ call.fn = "json.deserialize"
    /\ first' = outcome
    /\ outcome' = JsonDeserialize(schema, outcome.dict, FALSE, FALSE)
    /\ phase' = "again"
    /\ UNCHANGED <<schema, record, call, fkVars, enumVars, pwVars, dbVars>>

\* patch(record, dictionary) of json.py, again, on a record equal to the first
DoJsonPatchAgain ==
    /\ phase = "done" /\ call.fn = "json.patch"
    /\ first' = outcome
    /\ outcome' = JsonPatch(schema, call.before, outcome.dict, FALSE, FALSE)
    /\ phase' = "again"
    /\ UNCHANGED <<schema, record, call, fkVars, enumVars, pwVars, dbVars>>

NextAgain ==
    \/ DoDeserialize
    \/ DoJsonDeserialize
    \/ DoJsonPatch
    \/ DoDeserializeAgain
    \/ DoJsonDeserializeAgain
    \/ DoJsonPatchAgain

SpecAgain == InitDeser /\ [][NextAgain]_vars

(***************************************************************************)
(* The claims.                                                             *)
(***************************************************************************)

\* The errors deserialize raises for one catalog field.
FieldErrors == {"MissingKeyError", "FieldNotNullable", "FieldValueError"}

\* The key passes the allow and the deny list of the last call.
Survives(key) ==
    /\ (call.allow = {} \/ key \in call.allow)
    /\ (call.deny = {} \/ key \notin call.deny)

\* The place of the attribute in the catalog.
FieldIndex(attr) == CHOOSE i \in DOMAIN schema : schema[i].attr = attr

\* The last call ended with an error for a field before the i-th.
EndedBefore(i) ==
    /\ outcome.exc \in FieldErrors
    /\ FieldIndex(outcome.attr) < i

\* The keys of the dictionary of the last call that are not the key of a
\* catalog field surviving allow / deny.
UnknownKeys ==
    {key \in DOMAIN call.dictionary :
        ~\E i \in DOMAIN schema : schema[i].key = key /\ Survives(key)}

Called(fn) == phase = "done" /\ call.fn = fn

\* C1: with strict, and unless an error for a field came first, deserialize of
\* json/deserialization.py raises InvalidKeys exactly when the dictionary has a
\* key that is not the key of a catalog field surviving allow / deny, and
\* InvalidKeys carries exactly those keys; without strict the call returns and
\* the record is the one the call makes without those keys.
C1_StrictInvalidKeys ==
    (Called("deserialize") /\ outcome.exc \notin FieldErrors) =>
        IF call.strict
        THEN /\ (outcome.exc = "InvalidKeys") <=> (UnknownKeys # {})
             /\ outcome.exc = "InvalidKeys" => outcome.keys = UnknownKeys
        ELSE /\ outcome.exc = "none"
             /\ outcome.rec =
                  deserialize(schema,
                      [call EXCEPT !.dictionary =
                          [k \in (DOMAIN call.dictionary) \ UnknownKeys |->
                              call.dictionary[k]]],
                      FALSE).rec

\* C1: a strict call raised InvalidKeys with an unknown key and a key of a
\* field that allow / deny excluded.
C1_Witness ==
    /\ Called("deserialize") /\ call.strict
    /\ outcome.exc = "InvalidKeys"
    /\ outcome.keys = {"bogus", "col_b"}

\* C1: a call without strict returned although the dictionary had a key of no field.
C1_WitnessLax ==
    /\ Called("deserialize") /\ ~call.strict
    /\ outcome.exc = "none"
    /\ "bogus" \in DOMAIN call.dictionary

\* The i-th field is required and its key is absent from the dictionary.
RequiredAbsent(i) ==
    /\ Survives(schema[i].key)
    /\ schema[i].key \notin DOMAIN call.dictionary
    /\ ~schema[i].default
    /\ ~schema[i].null

\* An absent key in a patch raises nothing and leaves the attribute as it was.
PatchLeavesAbsent ==
    (Called("deserialize") /\ call.patch) =>
        \A i \in DOMAIN schema :
            schema[i].key \notin DOMAIN call.dictionary =>
                /\ outcome.exc # "MissingKeyError"
                /\ outcome.attr # schema[i].attr
                /\ record[schema[i].attr] = call.before[schema[i].attr]

\* C2 as stated: a full deserialize raises MissingKeyError for every surviving
\* field without default and not nullable whose key is absent; a patch never
\* raises for an absent key and leaves the attribute as it was.
C2_Original ==
    /\ (Called("deserialize") /\ ~call.patch) =>
          \A i \in DOMAIN schema :
              RequiredAbsent(i) =>
                  outcome.exc = "MissingKeyError" /\ outcome.attr = schema[i].attr
    /\ PatchLeavesAbsent

\* C2, amended: a full deserialize raises MissingKeyError for a surviving field
\* without default and not nullable whose key is absent, unless an error for an
\* earlier catalog field ended the call first; a patch never raises for an
\* absent key and leaves the attribute as it was.
C2_MissingKey ==
    /\ (Called("deserialize") /\ ~call.patch) =>
          \A i \in DOMAIN schema :
              RequiredAbsent(i) =>
                  \/ outcome.exc = "MissingKeyError" /\ outcome.attr = schema[i].attr
                  \/ EndedBefore(i)
    /\ PatchLeavesAbsent

\* C2: a full deserialize converted the first field and raised MissingKeyError
\* for the second.
C2_Witness ==
    /\ Called("deserialize") /\ ~call.patch
    /\ "col_a" \in DOMAIN call.dictionary
    /\ RequiredAbsent(2)
    /\ outcome.exc = "MissingKeyError" /\ outcome.attr = "b"

\* C2: a patch without the key of the required second field changed the first
\* attribute only.
C2_WitnessPatch ==
    /\ Called("deserialize") /\ call.patch
    /\ RequiredAbsent(2)
    /\ outcome.exc = "none"
    /\ record["a"] # call.before["a"]

Deserializers == {"deserialize", "json.deserialize", "json.patch"}

\* The dictionary of the last call supplies null for the i-th field.
NullSupplied(i) ==
    /\ schema[i].key \in DOMAIN call.dictionary
    /\ call.dictionary[schema[i].key] = None

\* C3 as stated: whenever the dictionary supplies null for a field, the call
\* raises FieldNotNullable if the field is not nullable and assigns null if it
\* is; NullError never reaches the caller.
C3_Original ==
    (phase = "done" /\ call.fn \in Deserializers) =>
        /\ outcome.exc # "NullError"
        /\ \A i \in DOMAIN schema :
              NullSupplied(i) =>
                  IF schema[i].null
                  THEN outcome.rec[schema[i].attr] = None
                  ELSE outcome.exc = "FieldNotNullable"

\* C3, amended: for a field of any kind that survives allow / deny, when the
\* dictionary supplies null and no error for an earlier catalog field ended the
\* call first, the call raises FieldNotNullable for the field if it is not
\* nullable and assigns null if it is; NullError never reaches the caller.
C3_NullRejection ==
    (phase = "done" /\ call.fn \in Deserializers) =>
        /\ outcome.exc # "NullError"
        /\ \A i \in DOMAIN schema :
              (NullSupplied(i) /\ Survives(schema[i].key) /\ ~EndedBefore(i)) =>
                  IF schema[i].null
                  THEN outcome.rec[schema[i].attr] = None
                  ELSE /\ outcome.exc = "FieldNotNullable"
                       /\ outcome.attr = schema[i].attr

\* C3: null for the second, not nullable field raised FieldNotNullable after
\* the first field was converted.
C3_Witness ==
    /\ phase = "done" /\ call.fn \in Deserializers
    /\ "col_a" \in DOMAIN call.dictionary
    /\ NullSupplied(2)
    /\ outcome.exc = "FieldNotNullable" /\ outcome.attr = "b"

\* C3: null for a nullable field that held a value was assigned.
C3_WitnessNullable ==
    /\ phase = "done" /\ call.fn = "json.patch"
    /\ schema[1].null /\ NullSupplied(1)
    /\ call.before["a"] # None
    /\ record["a"] = None

\* The last call was given what serialize(record), with its default options,
\* returned for the caller's record.
OfSerialized(fn) ==
    /\ Called(fn)
    /\ call.chained
    /\ call.ignore = {} /\ call.null

\* C4: for a record without null attributes, and a field of any kind,
\* deserialize(type(r), serialize(r)) returns a record equal to r attribute for
\* attribute.
C4_RoundTrip ==
    (OfSerialized("json.deserialize") /\ \A a \in DOMAIN record : record[a] # None) =>
        /\ outcome.exc = "none"
        /\ \A a \in DOMAIN record : PyEq(outcome.rec[a], record[a])

\* C5: patch(r, serialize(r)) leaves every attribute of r as it was.
C5_PatchIdempotent ==
    OfSerialized("json.patch") =>
        \A a \in DOMAIN record : PyEq(record[a], call.before[a])

\* How often the entry occurs in the sequence.
Count(seq, entry) == Cardinality({j \in DOMAIN seq : seq[j] = entry})

\* The i-th entry given to filter_fk_dupes is a foreign key named A_id, and
\* another foreign key entry named A has the same db_column.
ShadowsRelation(i) ==
    /\ fields[i].kind = "ForeignKeyField"
    /\ endswith_id(fields[i].attr)
    /\ \E j \in DOMAIN fields :
          /\ j # i
          /\ fields[j].kind = "ForeignKeyField"
          /\ fields[j].attr = strip_id(fields[i].attr)
          /\ fields[j].key = fields[i].key

\* C6: filter_fk_dupes drops a foreign key entry named A_id exactly when another
\* foreign key entry named A has the same db_column, and yields every other
\* entry exactly once; so map_fields with foreign keys, for a class with the
\* relation owner and its identifier owner_id under the db_column owner, has
\* exactly one entry for that db_column, bound to owner.
C6_FkDedup ==
    /\ (phase = "done" /\ catalog.fn = "filter_fk_dupes") =>
          /\ \A i \in DOMAIN fields :
                Count(catalog.out, fields[i]) = IF ShadowsRelation(i) THEN 0 ELSE 1
          /\ \A j \in DOMAIN catalog.out :
                \E i \in DOMAIN fields : fields[i] = catalog.out[j]
    /\ (/\ phase = "done" /\ catalog.fn = "map_fields" /\ catalog.foreign_keys
        /\ \E i, j \in DOMAIN fields :
              /\ fields[i] = Field("owner", "owner", "ForeignKeyField", FALSE, FALSE)
              /\ fields[j] = Field("owner_id", "owner", "ForeignKeyField", FALSE, FALSE)) =>
          /\ Cardinality({j \in DOMAIN catalog.out : catalog.out[j].key = "owner"}) = 1
          /\ \A j \in DOMAIN catalog.out :
                catalog.out[j].key = "owner" => catalog.out[j].attr = "owner"

\* C6: filter_fk_dupes dropped owner_id, the shadow of owner, and kept an
\* owner_id-like entry (pet_id) whose sibling is no foreign key.
C6_Witness ==
    /\ phase = "done" /\ catalog.fn = "filter_fk_dupes"
    /\ \E i \in DOMAIN fields : fields[i].attr = "owner_id" /\ ShadowsRelation(i)
    /\ \E i \in DOMAIN fields : fields[i].attr = "pet_id" /\ ~ShadowsRelation(i)
    /\ \E i \in DOMAIN fields : fields[i].attr = "pet"
    /\ \A j \in DOMAIN catalog.out : catalog.out[j].attr # "owner_id"
    /\ \E j \in DOMAIN catalog.out : catalog.out[j].attr = "pet_id"

\* The value behind a member of a value set: a member's .value, or the scalar.
Under(item) == IF item.ty = "enum" THEN EnumValue(item) ELSE item

\* The value set is of plain scalars, or of named constants.
Homogeneous(V) ==
    \/ \A item \in V : item.ty # "enum"
    \/ \A item \in V : item.ty = "enum"

\* C7: for an EnumField of plain scalars or of named constants, db_value(x)
\* returns the underlying value of x when that is a value of the set and raises
\* InvalidEnumerationValue otherwise; python_value(s) returns the member of the
\* set whose value is s and raises InvalidEnumerationValue when there is none.
C7_EnumDomain ==
    (enum.built /\ Homogeneous(enum.V)) =>
        /\ enumres.op = "db_value" =>
              IF \E item \in enum.V : Under(item) = Under(enumres.arg)
              THEN enumres.res = Ok(Under(enumres.arg))
              ELSE enumres.res.exc = "InvalidEnumerationValue"
        /\ enumres.op = "python_value" =>
              IF \E item \in enum.V : Under(item) = enumres.arg
              THEN /\ enumres.res.exc = "none"
                   /\ enumres.res.val \in enum.V
                   /\ Under(enumres.res.val) = enumres.arg
              ELSE enumres.res.exc = "InvalidEnumerationValue"

\* C7: db_value of a named constant of the set returned its value, in a field
\* built from two named constants.
C7_Witness ==
    /\ enum.built /\ enum.V = {PyEnum(0), PyEnum(1)}
    /\ enumres.op = "db_value" /\ enumres.arg = PyEnum(1)
    /\ enumres.res = Ok(PyStr("text", 1))

\* C7: python_value of a stored string outside a plain value set was refused.
C7_WitnessRead ==
    /\ enum.built /\ enum.V = {PyStr("text", 0), None}
    /\ enumres.op = "python_value" /\ enumres.arg = PyStr("text", 1)
    /\ enumres.res.exc = "InvalidEnumerationValue"

HasHashFormat(value) == value.k = "argon2"

\* C9: assigning a value other than null to the password attribute stores the
\* value unchanged if it has the hash format; otherwise raises
\* PasswordTooShortError(len(v), 8) and stores nothing if it is shorter than 8;
\* otherwise stores a hash of it, which differs from it.
C9_WritePath ==
    (pwres.op = "set" /\ pwres.arg # None) =>
        IF HasHashFormat(pwres.arg)
        THEN /\ pwres.res.exc = "none"
             /\ stored.k = pwres.arg.k /\ stored.n = pwres.arg.n /\ stored.e = pwres.arg.e
        ELSE IF len(pwres.arg) < 8
        THEN /\ pwres.res = [exc |-> "PasswordTooShortError", val |-> PyInt(len(pwres.arg))]
             /\ stored = pwres.before
        ELSE /\ pwres.res.exc = "none"
             /\ HasHashFormat(stored) /\ stored.n = pwres.arg.n
             /\ stored # pwres.arg

\* The password is the plain text the stored hash was made from.
IsPlaintextOf(passwd, hash) == hash # None /\ passwd.k = "text" /\ passwd.n = hash.n

\* Reading the attribute gives null for null and else the stored hash, wrapped.
ReadWraps ==
    pwres.op = "get" =>
        IF stored = None
        THEN pwres.res = Ok(None)
        ELSE /\ pwres.res.exc = "none"
             /\ pwres.res.val.ty = "Argon2Hash"
             /\ pwres.res.val.n = stored.n /\ pwres.res.val.e = stored.e

C10_Witness ==
    /\ pwres.op = "verify"
    /\ stored = hasher_hash(Plaintext(MIN_PW_LEN + 2), 1)
    /\ pwres.arg = Plaintext(MIN_PW_LEN + 2)
    /\ pwres.res = Ok(PyBool(TRUE))

Ignored(field) ==
    \/ field.key \in call.ignore
    \/ field.attr \in call.ignore
    \/ \E cls \in ClassesOf(field.kind) : cls \in call.ignore

\* C11: the dictionary serialize returns holds the key of a catalog field
\* exactly when the field matches no entry of ignore and its attribute is not
\* null or nulls are included; each key it holds maps to the outbound
\* conversion of the attribute, null for a null attribute of any kind; and it
\* holds no other key.
C11_SerializeKeys ==
    (phase = "serialized" /\ call.fn = "json.serialize") =>
        /\ \A i \in DOMAIN schema :
              LET field == schema[i]
                  value == record[field.attr]
              IN  /\ field.key \in DOMAIN outcome.dict <=>
                        (~Ignored(field) /\ (value # None \/ call.null))
                  /\ field.key \in DOMAIN outcome.dict =>
                        /\ outcome.dict[field.key] = field_to_json(field, value).val
                        /\ value = None => outcome.dict[field.key] = None
        /\ \A key \in DOMAIN outcome.dict : \E i \in DOMAIN schema : schema[i].key = key

\* C11: serialize without nulls left out the null attribute a and emitted b.
C11_Witness ==
    /\ phase = "serialized" /\ call.fn = "json.serialize"
    /\ ~call.null /\ call.ignore = {}
    /\ record["a"] = None /\ record["b"] # None
    /\ DOMAIN outcome.dict = {"col_b"}

\* C11: serialize with nulls emitted null for a temporal field, and left out
\* the field b, ignored by its class.
C11_WitnessIgnore ==
    /\ phase = "serialized" /\ call.fn = "json.serialize"
    /\ call.null /\ call.ignore = {"IntegerField"}
    /\ schema[1].kind = "DateTimeField" /\ record["a"] = None
    /\ DOMAIN outcome.dict = {"col_a"} /\ outcome.dict["col_a"] = None


\* The record deserialize starts from: the caller's record when patching, a
\* new record of the class else.
Target == IF call.patch THEN call.before ELSE NewRecord(schema)

\* C12: deserialize of json/deserialization.py, for a record or for a class,
\* strict or not, never assigns the attribute of a catalog field whose key is
\* excluded by a non-empty allow or deny, whatever the dictionary holds under
\* the key, and raises no MissingKeyError for that field.
C12_AllowDeny ==
    Called("deserialize") =>
        \A i \in DOMAIN schema :
            ~Survives(schema[i].key) =>
                /\ outcome.rec[schema[i].attr] = Target[schema[i].attr]
                /\ ~(outcome.exc = "MissingKeyError" /\ outcome.attr = schema[i].attr)

\* C12: a patch that denies col_a left a as it was, though the dictionary held
\* a value for it that b's conversion shows would have been assigned, and
\* assigned b.
C12_Witness ==
    /\ Called("deserialize") /\ call.patch /\ ~call.strict
    /\ call.deny = {"col_a"} /\ call.allow = {}
    /\ "col_a" \in DOMAIN call.dictionary
    /\ Convert(schema[1], call.dictionary["col_a"]).exc = "none"
    /\ Convert(schema[1], call.dictionary["col_a"]).val # call.before["a"]
    /\ outcome.exc = "none"
    /\ record["a"] = call.before["a"]
    /\ record["b"] # call.before["b"]

\* C12: a full deserialize that allows only col_b returned a record although
\* the required key col_a was absent.
C12_WitnessRequired ==
    /\ Called("deserialize") /\ ~call.patch
    /\ call.allow = {"col_b"}
    /\ ~schema[1].null /\ ~schema[1].default
    /\ "col_a" \notin DOMAIN call.dictionary
    /\ outcome.exc = "none"


\* The repeated call ended as the first did: the same error, or the same record.
SameOutcome ==
    /\ outcome.exc = first.exc
    /\ outcome.attr = first.attr
    /\ outcome.value = first.value
    /\ outcome.keys = first.keys
    /\ outcome.exc = "none" => outcome.rec = first.rec

\* C13 as stated: for each of the three operations, the repeated call ends as
\* the first did, and the calls leave the entries of the dictionary as they were.
C13_Original ==
    phase = "again" =>
        /\ SameOutcome
        /\ first.dict = call.dictionary
        /\ outcome.dict = call.dictionary

\* The keys of the catalog fields the first call came to: all of them, or
\* those up to the field it raised an error for.
ReachedKeys ==
    {schema[i].key : i \in {j \in DOMAIN schema :
        first.exc \in FieldErrors => j <= FieldIndex(first.attr)}}

\* The catalog fields without which json.py's deserialize makes no record.
Required == {i \in DOMAIN schema : ~schema[i].null /\ ~schema[i].default}

\* C13, amended: deserialize of json/deserialization.py leaves the entries of
\* the dictionary as they were and, repeated, ends as it did the first time.
\* deserialize and patch of json.py remove from the dictionary the entry of
\* every catalog field they come to and leave the others; repeated after a
\* first call that returned, they find no catalog key: patch returns the
\* record as it was given, deserialize raises FieldNotNullable for the first
\* field that is neither nullable nor has a default, or else returns a new
\* record with nothing assigned.
C13_Reinvocation ==
    phase = "again" =>
        /\ call.fn = "deserialize" =>
              /\ SameOutcome
              /\ first.dict = call.dictionary
              /\ outcome.dict = call.dictionary
        /\ call.fn \in {"json.deserialize", "json.patch"} =>
              /\ first.dict = [k \in (DOMAIN call.dictionary) \ ReachedKeys |->
                                  call.dictionary[k]]
              /\ first.exc = "none" => outcome.dict = first.dict
              /\ (first.exc = "none" /\ call.fn = "json.patch") =>
                    (outcome.exc = "none" /\ outcome.rec = call.before)
              /\ (first.exc = "none" /\ call.fn = "json.deserialize") =>
                    IF Required # {}
                    THEN /\ outcome.exc = "FieldNotNullable"
                         /\ \A i \in Required : FieldIndex(outcome.attr) <= i
                         /\ FieldIndex(outcome.attr) \in Required
                    ELSE outcome.exc = "none" /\ outcome.rec = NewRecord(schema)

\* C13: json.py's deserialize returned a record the first time and, given the
\* same dictionary again, raised FieldNotNullable.
C13_Witness ==
    /\ phase = "again" /\ call.fn = "json.deserialize"
    /\ DOMAIN call.dictionary = {"col_a", "col_b"}
    /\ first.exc = "none" /\ first.rec["b"] = PyInt(1)
    /\ first.dict = EmptyDict
    /\ outcome.exc = "FieldNotNullable"

\* C13: a repeated patch by json/deserialization.py assigned the same values
\* the first had assigned.
C13_WitnessSame ==
    /\ phase = "again" /\ call.fn = "deserialize" /\ call.patch
    /\ first.exc = "none" /\ first.rec # call.before
    /\ outcome.exc = "none" /\ outcome.rec = first.rec
    /\ outcome.dict = call.dictionary /\ "col_a" \in DOMAIN call.dictionary


\* The values a boolean field takes: true, false, 0 and 1.
BoolInputs == {PyBool(TRUE), PyBool(FALSE), PyInt(0), PyInt(1)}

\* C14: for a boolean field, the inbound conversion accepts exactly true,
\* false, 0 and 1, 0 giving false and 1 true; for every other value that is not
\* null, every other integer among them, deserialize raises FieldValueError
\* for the field.
C14_BoolInbound ==
    (/\ phase = "done" /\ call.fn \in Deserializers
     /\ schema[1].kind = "BooleanField"
     /\ Survives("col_a")
     /\ "col_a" \in DOMAIN call.dictionary
     /\ call.dictionary["col_a"] # None) =>
        LET value == call.dictionary["col_a"] IN
        IF value \in BoolInputs
        THEN /\ ~(outcome.exc = "FieldValueError" /\ outcome.attr = "a")
             /\ outcome.rec["a"] = PyBool(value.n = 1)
        ELSE /\ outcome.exc = "FieldValueError" /\ outcome.attr = "a"
             /\ outcome.rec["a"] = Target["a"]


\* The pass of the last call came to the i-th field with a value whose
\* conversion raises TypeError or ValueError.
ConversionRaises(i) ==
    /\ Survives(schema[i].key)
    /\ schema[i].key \in DOMAIN call.dictionary
    /\ FieldConverter(schema[i], call.dictionary[schema[i].key], TRUE).exc
          \in {"TypeError", "ValueError"}
    /\ ~EndedBefore(i)

\* C15: when the conversion of a supplied value raises TypeError or ValueError,
\* deserialize of json/deserialization.py raises FieldValueError with the
\* attribute, key and value of that field, has assigned no later field of the
\* catalog, and returns no record.
C15_FailFast ==
    Called("deserialize") =>
        \A i \in DOMAIN schema :
            ConversionRaises(i) =>
                /\ outcome.exc = "FieldValueError"
                /\ outcome.attr = schema[i].attr
                /\ outcome.value = call.dictionary[schema[i].key]
                /\ \A j \in DOMAIN schema :
                      j >= i => outcome.rec[schema[j].attr] = Target[schema[j].attr]

\* C15: the value for the first field did not convert; the second field, whose
\* value converts to another value than it holds, was not assigned.
C15_Witness ==
    /\ Called("deserialize") /\ call.patch
    /\ ConversionRaises(1)
    /\ "col_b" \in DOMAIN call.dictionary /\ Survives("col_b")
    /\ FieldConverter(schema[2], call.dictionary["col_b"], TRUE).exc = "none"
    /\ FieldConverter(schema[2], call.dictionary["col_b"], TRUE).val # call.before["b"]
    /\ outcome.exc = "FieldValueError" /\ outcome.attr = "a"
    /\ record["b"] = call.before["b"]

\* C15: the value for the second field did not convert, after the first field
\* of the caller's record had been assigned.
C15_WitnessPartial ==
    /\ Called("deserialize") /\ call.patch
    /\ ConversionRaises(2)
    /\ outcome.exc = "FieldValueError" /\ outcome.attr = "b"
    /\ record["a"] # call.before["a"]


\* C16: serialize emits, for an enumeration field that holds a member and is
\* not ignored, the underlying value of the member: the value of a named
\* constant, and the raw value itself of a plain value set; it does not fail.
C16_EnumOutbound ==
    (/\ call.fn = "json.serialize" /\ phase \in {"serialized", "done"}
     /\ schema[1].kind = "EnumField"
     /\ record["a"] # None
     /\ ~Ignored(schema[1])) =>
        /\ outcome.exc = "none"
        /\ outcome.dict["col_a"] = Under(record["a"])


\* The i-th field survives allow / deny and the dictionary of the last call
\* holds its key.
Supplied(i) ==
    /\ Survives(schema[i].key)
    /\ schema[i].key \in DOMAIN call.dictionary

\* The pass over the catalog ends with an error for the i-th field, if it
\* comes to it: a required key is absent, or the value does not convert.
FailsAt(i) ==
    /\ Survives(schema[i].key)
    /\ IF schema[i].key \in DOMAIN call.dictionary
       THEN FieldConverter(schema[i], call.dictionary[schema[i].key], TRUE).exc # "none"
       ELSE ~call.patch /\ ~schema[i].default /\ ~schema[i].null

\* C17: deserialize of json/deserialization.py raises InvalidKeys only after
\* the whole catalog pass: every surviving field whose key the dictionary holds
\* has then been converted and assigned, in the caller's own record when
\* patching; and when the pass ends with MissingKeyError, FieldNotNullable or
\* FieldValueError for a field, that error is raised and not InvalidKeys.
C17_StrictAfterPass ==
    Called("deserialize") =>
        /\ outcome.exc = "InvalidKeys" =>
              /\ call.strict
              /\ \A i \in DOMAIN schema :
                    Supplied(i) =>
                        LET conv == FieldConverter(schema[i],
                                        call.dictionary[schema[i].key], TRUE)
                        IN  /\ conv.exc = "none"
                            /\ outcome.rec[schema[i].attr] = conv.val
                            /\ call.patch => record[schema[i].attr] = conv.val
        /\ (\E i \in DOMAIN schema : FailsAt(i)) =>
              /\ outcome.exc \in FieldErrors
              /\ FailsAt(FieldIndex(outcome.attr))
              /\ \A i \in DOMAIN schema : FailsAt(i) => FieldIndex(outcome.attr) <= i

\* C17: a strict patch raised InvalidKeys for a key no field has, with both
\* fields of the caller's record assigned.
C17_Witness ==
    /\ Called("deserialize") /\ call.patch /\ call.strict
    /\ outcome.exc = "InvalidKeys" /\ outcome.keys = {"bogus"}
    /\ Supplied(1) /\ Supplied(2)
    /\ record["a"] # call.before["a"]
    /\ record["b"] # call.before["b"]

\* C17: a strict call with a key no field has raised FieldValueError for the
\* second field, not InvalidKeys.
C17_WitnessPreempt ==
    /\ Called("deserialize") /\ call.strict
    /\ "bogus" \in DOMAIN call.dictionary
    /\ outcome.exc = "FieldValueError" /\ outcome.attr = "b"


\* The call of execute_sql has returned or raised.
Ended == exec.pc \in {"returned", "raised"}

\* Within one call of execute_sql the query is executed at most twice; twice
\* only if closing is false, retry is true and the first execution raised
\* OperationalError, and then on a closed connection; an OperationalError of
\* the second execution is what the call raises; with closing, the query is
\* executed once, inside the connection context, and its OperationalError is
\* raised without a second execution.
BoundedRetry ==
    /\ exec.executions <= 2
    /\ exec.executions = 2 =>
          /\ ~db.closing /\ db.retry
          /\ exec.first = "OperationalError"
          /\ ~exec.open_before_second
    /\ (Ended /\ exec.executions = 2 /\ exec.last = "OperationalError") =>
          (exec.pc = "raised" /\ exec.result = "OperationalError")
    /\ (Ended /\ db.closing) =>
          /\ exec.executions = 1 /\ exec.in_context
          /\ exec.result = exec.last
          /\ exec.pc = IF exec.last = "ok" THEN "returned" ELSE "raised"

\* C18: every call of execute_sql keeps to BoundedRetry, and a call that was
\* made returns or raises.
C18_BoundedRetry ==
    /\ []BoundedRetry
    /\ (exec.pc \notin {"idle", "returned", "raised"}) ~> Ended

\* C18: the first execution raised OperationalError on a connection that stayed
\* open; the connection was closed, the query executed again, and the
\* OperationalError of the second execution was raised.
C18_Witness ==
    /\ exec.pc = "raised" /\ exec.executions = 2
    /\ exec.closed /\ ~exec.given
    /\ exec.last = "OperationalError" /\ exec.result = "OperationalError"

\* C18: with closing and retry, an OperationalError was raised after one
\* execution.
C18_WitnessClosing ==
    /\ exec.pc = "raised" /\ db.closing /\ db.retry
    /\ exec.executions = 1 /\ exec.result = "OperationalError"

====
